---- MODULE Spec2Model ----
(***************************************************************************)
(* A model of the Flask API scaffold: the global exception handler         *)
(* (src/app.py handle_exception), the application factory (create_app),    *)
(* the logging set-up (init_logging) and the declarative query models      *)
(* (src/models/query_model/__init__.py).                                   *)
(***************************************************************************)
EXTENDS Integers, Sequences, FiniteSets, TLC

VARIABLES
    \* ---- handle_exception ----
    h_pc,        \* position inside handle_exception
    e,           \* the exception handed to the handler
    request,     \* the request bound to the context while the handler runs
    code,        \* local `code`
    exc,         \* local `exc`, the formatted traceback lines
    h_trace,     \* what the handler has done so far, in order
    alerts,      \* the argument tuples send_dingding_alert was called with
    response,    \* what the handler returned, NoResponse until it returns
    h_raised,    \* the error the handler let propagate, "" if none
    \* ---- create_app ----
    a_pc,            \* position inside create_app / init_config
    all_blueprints,  \* blueprints.all_blueprints
    settings,        \* the settings module
    app,             \* the Flask application being built
    db_apps,         \* the names of the applications db.init_app was called with
    a_i,             \* how many blueprints the loop has gone through
    a_steps,         \* the steps create_app has taken, in order
    \* ---- init_logging ----
    l_pc,        \* position of each process inside init_logging
    fs,          \* the directories that exist
    l_calls,     \* how many times each process has called init_logging
    l_made,      \* how many times each process's os.makedirs created the directory
    l_err,       \* the error init_logging raised in each process, "" if none
    l_conf,      \* the logging configuration in force in each process
    \* ---- query models ----
    fields,      \* cls.__fields__, the QueryFields the model class declares
    p_request,   \* the request parse_args reads: its args and its JSON body
    p_pc,        \* position inside parse_args
    p_i,         \* how many fields the add_argument loop has gone through
    parser,      \* the arguments registered on the RequestParser
    parsed,      \* the namespace parser.parse_args() returned
    p_out,       \* how parse_args ended: "instance" or the error it raised
    dicts,       \* the dict objects alive, by identity
    instance,    \* the BaseQueryModel instance, <<>> before it is built
    m_kwargs,    \* the keyword arguments the instance was built from
    m_view,      \* the dict the caller got from as_dict(), 0 before
    m_expect,    \* what the caller's dict holds after the caller's changes
    m_changes,   \* how many changes the caller made to its dict
    m_last       \* the last get / in call and its result

hvars == <<h_pc, e, request, code, exc, h_trace, alerts, response, h_raised>>

avars == <<a_pc, all_blueprints, settings, app, db_apps, a_i, a_steps>>
lvars == <<l_pc, fs, l_calls, l_made, l_err, l_conf>>

pvars == <<p_request, p_pc, p_i, parser, parsed, p_out>>
mvars == <<m_view, m_expect, m_changes, m_last>>
qvars == <<fields, dicts, instance, m_kwargs, pvars, mvars>>

vars == <<hvars, avars, lvars, qvars>>

\* what the steps of one component leave alone: the other components
HFrame == UNCHANGED <<avars, lvars, qvars>>
AFrame == UNCHANGED <<hvars, lvars, qvars>>
LFrame == UNCHANGED <<hvars, avars, qvars>>
QFrame == UNCHANGED <<hvars, avars, lvars>>

----------------------------------------------------------------------------
(* Python values: an int, a str or None.                                   *)
PyInt(n) == [t |-> "int", n |-> n, s |-> ""]
PyStr(s) == [t |-> "str", n |-> 0, s |-> s]
PyNone == [t |-> "NoneType", n |-> 0, s |-> ""]
\* an attribute that the object does not have
NoAttr == [t |-> "absent", n |-> 0, s |-> ""]

Digit(d) == <<"0", "1", "2", "3", "4", "5", "6", "7", "8", "9">>[d + 1]

RECURSIVE IntToStr(_)
IntToStr(n) == IF n < 10 THEN Digit(n) ELSE IntToStr(n \div 10) \o Digit(n % 10)

PyBool(b) == [t |-> "bool", n |-> IF b THEN 1 ELSE 0, s |-> ""]

\* str(v) of a Python value
Str(v) == CASE v.t = "int" -> IntToStr(v.n)
            [] v.t = "str" -> v.s
            [] v.t = "bool" -> (IF v.n = 1 THEN "True" ELSE "False")
            [] OTHER -> "None"

\* how often x occurs in seq, and the members of seq
Count(x, seq) == Cardinality({i \in DOMAIN seq : seq[i] = x})
Range(seq) == {seq[i] : i \in DOMAIN seq}

\* a dict: a function from its keys
EmptyDict == [k \in {} |-> PyNone]

\* d[k] = v
Put(d, k, v) == [x \in DOMAIN d \cup {k} |-> IF x = k THEN v ELSE d[x]]

\* del d[k]
Del(d, k) == [x \in DOMAIN d \ {k} |-> d[x]]

\* d.get(k, default)
DictGet(d, k, default) == IF k \in DOMAIN d THEN d[k] ELSE default

----------------------------------------------------------------------------
(* The exceptions a view can raise.  werkzeug's HTTPException carries a    *)
(* class-level `code` (None on the base class); ServerException is the     *)
(* application's own error class with a `code`; every other exception is   *)
(* outside both hierarchies, whether or not it has a `code` attribute of   *)
(* its own (urllib's HTTPError has one).                                   *)
ExcClasses == {"HTTPException", "BadRequest", "NotFound", "InternalServerError",
               "ServerException", "ValueError", "HTTPError"}

\* the classes `cls` is, or derives from
Bases(cls) == CASE cls \in {"BadRequest", "NotFound", "InternalServerError"}
                     -> {cls, "HTTPException", "Exception"}
                [] cls = "HTTPError" -> {cls, "OSError", "Exception"}
                [] OTHER -> {cls, "Exception"}

IsInstance(ex, classes) == Bases(ex.cls) \cap classes # {}

ServerCodes == {PyInt(400), PyInt(404), PyInt(500), PyInt(503)}

\* the values e.code can hold, by class
CodesOf(cls) == CASE cls = "HTTPException" -> {PyNone}
                  [] cls = "BadRequest" -> {PyInt(400)}
                  [] cls = "NotFound" -> {PyInt(404)}
                  [] cls = "InternalServerError" -> {PyInt(500)}
                  [] cls = "ServerException" -> ServerCodes
                  [] cls = "HTTPError" -> {PyInt(404), PyInt(500)}
                  [] OTHER -> {NoAttr}

Messages == {"boom", "no such item"}

Exceptions == UNION {[cls : {c}, code : CodesOf(c), msg : Messages] : c \in ExcClasses}

\* str(e): werkzeug formats "<code> <name>: <description>", writing ??? for
\* a missing code; any other exception prints its message
StrExc(ex) == IF IsInstance(ex, {"HTTPException"})
              THEN (IF ex.code = PyNone THEN "???" ELSE Str(ex.code))
                   \o " " \o ex.cls \o ": " \o ex.msg
              ELSE ex.msg

\* repr(e)
ReprExc(ex) == IF IsInstance(ex, {"HTTPException"})
               THEN "<" \o ex.cls \o " '" \o StrExc(ex) \o "'>"
               ELSE ex.cls \o "('" \o ex.msg \o "')"

\* traceback.format_exc(limit=10).split("\n"): the header line, the line of
\* the exception, and the empty string after the final newline
FormatExc(ex) == <<"Traceback (most recent call last):",
                   ex.cls \o ": " \o StrExc(ex), "">>

\* request.json yields the body, None when the request carries no JSON, and
\* raises BadRequest when a JSON body cannot be decoded
Requests == [url : {"http://api/items", "http://api/users?page=1"},
             json : {"object", "none", "malformed"}]

RequestArgs(req) == IF req.url = "http://api/users?page=1" THEN "page=1" ELSE ""

DefaultCode == 500

NoRequest == [url |-> "", json |-> "none"]
NoException == [cls |-> "", code |-> NoAttr, msg |-> ""]

\* lines 65-67
ComputeCode(ex) == IF IsInstance(ex, {"HTTPException", "ServerException"})
                   THEN ex.code
                   ELSE PyInt(DefaultCode)

\* line 71
ShouldAlert(c) == Str(c) = "500"

\* line 73
MakeResponse(c, ex, tb) ==
    [body |-> [error_code |-> c, error_msg |-> StrExc(ex), traceback |-> tb],
     status |-> c]

HInit ==
    /\ h_pc = "idle"
    /\ e = NoException
    /\ request = NoRequest
    /\ code = NoAttr
    /\ exc = <<>>
    /\ h_trace = <<>>
    /\ alerts = <<>>
    /\ response = <<>>
    /\ h_raised = ""

\* Flask hands an exception raised while serving `req` to the registered
\* handler (line 50)
Dispatch ==
    /\ HFrame
    /\ h_pc \in {"idle", "returned", "raised"}
    /\ \E ex \in Exceptions, req \in Requests :
          /\ e' = ex
          /\ request' = req
    /\ h_pc' = "code"
    /\ code' = NoAttr
    /\ exc' = <<>>
    /\ h_trace' = <<>>
    /\ alerts' = <<>>
    /\ response' = <<>>
    /\ h_raised' = ""

\* lines 65-67
HandleException_Code ==
    /\ HFrame
    /\ h_pc = "code"
    /\ code' = ComputeCode(e)
    /\ h_pc' = "log"
    /\ UNCHANGED <<e, request, exc, h_trace, alerts, response, h_raised>>

\* a handler that formats the traceback but logs nothing before alerting
HandleException_Log_Silent ==
    /\ HFrame
    /\ h_pc = "log"
    /\ exc' = FormatExc(e)
    /\ h_pc' = "alert"
    /\ UNCHANGED <<e, request, code, h_trace, alerts, response, h_raised>>

\* lines 69-70
HandleException_Log ==
    /\ HFrame
    /\ h_pc = "log"
    /\ h_trace' = Append(h_trace, "log")
    /\ exc' = FormatExc(e)
    /\ h_pc' = "alert"
    /\ UNCHANGED <<e, request, code, alerts, response, h_raised>>

\* lines 71-72: the arguments are evaluated left to right, then the call is
\* made; the call either returns or raises
HandleException_Alert ==
    /\ HFrame
    /\ h_pc = "alert"
    /\ IF ~ShouldAlert(code)
       THEN /\ h_pc' = "return"
            /\ UNCHANGED <<h_trace, alerts, h_raised>>
       ELSE IF request.json = "malformed"
       THEN /\ h_trace' = h_trace \o <<"read_url", "read_args", "read_json">>
            /\ h_raised' = "BadRequest"
            /\ h_pc' = "raised"
            /\ UNCHANGED alerts
       ELSE /\ alerts' = Append(alerts, <<request.url, RequestArgs(request),
                                          request.json, ReprExc(e), exc>>)
            /\ \E returns \in BOOLEAN :
                  IF returns
                  THEN /\ h_trace' = h_trace \o <<"read_url", "read_args", "read_json",
                                                  "alert_call", "alert_return">>
                       /\ h_pc' = "return"
                       /\ UNCHANGED h_raised
                  ELSE /\ h_trace' = h_trace \o <<"read_url", "read_args", "read_json",
                                                  "alert_call">>
                       /\ h_raised' = "AlertError"
                       /\ h_pc' = "raised"
    /\ UNCHANGED <<e, request, code, exc, response>>

\* line 73
HandleException_Return ==
    /\ HFrame
    /\ h_pc = "return"
    /\ response' = <<MakeResponse(code, e, exc)>>
    /\ h_trace' = Append(h_trace, "response")
    /\ h_pc' = "returned"
    /\ UNCHANGED <<e, request, code, exc, alerts, h_raised>>

HIdle == HInit

HNext ==
    \/ Dispatch
    \/ HandleException_Code
    \/ HandleException_Log
    \/ HandleException_Alert
    \/ HandleException_Return

----------------------------------------------------------------------------
(* create_app, init_config, register_blueprints                            *)

MaxBlueprints == 3

Blueprints == {"items", "users", "health"}

RECURSIVE DistinctSeqs(_, _)
\* the lists of length <= n of distinct members of S
DistinctSeqs(S, n) ==
    IF n = 0 \/ S = {} THEN {<<>>}
    ELSE {<<>>} \cup UNION {{<<x>> \o t : t \in DistinctSeqs(S \ {x}, n - 1)} : x \in S}

Settings == [SQLALCHEMY_DATABASE_URI : {"mysql://db/prod", "sqlite://"},
             SQLALCHEMY_TRACK_MODIFICATIONS : BOOLEAN]

\* Flask(__name__): nothing registered, flask's own JSON encoder
NewFlask == [name |-> "app", config |-> {}, blueprints |-> <<>>, error_handlers |-> {},
             json_encoder |-> "JSONEncoder", cors |-> FALSE]

NoApp == [name |-> "", config |-> {}, blueprints |-> <<>>, error_handlers |-> {},
          json_encoder |-> "", cors |-> FALSE]

\* app.config[key] = value
SetConfig(a, key, value) ==
    [a EXCEPT !.config = {kv \in @ : kv[1] # key} \cup {<<key, value>>}]

\* a loop that registers each blueprint a second time
RegisterBlueprint_Twice(a, blueprint) ==
    [a EXCEPT !.blueprints = @ \o <<blueprint, blueprint>>]

\* app.register_blueprint(blueprint), line 59
RegisterBlueprint(a, blueprint) == [a EXCEPT !.blueprints = Append(@, blueprint)]

\* app.register_error_handler(Exception, handle_exception), line 50
RegisterErrorHandler(a) ==
    [a EXCEPT !.error_handlers = @ \cup {<<"Exception", "handle_exception">>}]

AInit ==
    /\ a_pc = "idle"
    /\ all_blueprints \in DistinctSeqs(Blueprints, MaxBlueprints)
    /\ settings \in Settings
    /\ app = NoApp
    /\ db_apps = <<>>
    /\ a_i = 0
    /\ a_steps = <<>>

AIdle ==
    /\ a_pc = "idle"
    /\ all_blueprints = <<>>
    /\ settings = [SQLALCHEMY_DATABASE_URI |-> "sqlite://",
                   SQLALCHEMY_TRACK_MODIFICATIONS |-> FALSE]
    /\ app = NoApp
    /\ db_apps = <<>>
    /\ a_i = 0
    /\ a_steps = <<>>

\* line 37
CreateApp_Flask ==
    /\ AFrame
    /\ a_pc = "idle"
    /\ app' = NewFlask
    /\ a_steps' = Append(a_steps, "Flask")
    /\ a_pc' = "cors"
    /\ UNCHANGED <<all_blueprints, settings, db_apps, a_i>>

\* line 38
CreateApp_CORS ==
    /\ AFrame
    /\ a_pc = "cors"
    /\ app' = [app EXCEPT !.cors = TRUE]
    /\ a_steps' = Append(a_steps, "CORS")
    /\ a_pc' = "config"
    /\ UNCHANGED <<all_blueprints, settings, db_apps, a_i>>

\* lines 39, 46-47
InitConfig_Settings ==
    /\ AFrame
    /\ a_pc = "config"
    /\ app' = SetConfig(SetConfig(app, "SQLALCHEMY_DATABASE_URI",
                                  settings.SQLALCHEMY_DATABASE_URI),
                        "SQLALCHEMY_TRACK_MODIFICATIONS",
                        settings.SQLALCHEMY_TRACK_MODIFICATIONS)
    /\ a_steps' = Append(a_steps, "config")
    /\ a_i' = 0
    /\ a_pc' = "blueprints"
    /\ UNCHANGED <<all_blueprints, settings, db_apps>>

\* lines 49, 58-59: one turn of the loop
RegisterBlueprints_Step ==
    /\ AFrame
    /\ a_pc = "blueprints"
    /\ a_i < Len(all_blueprints)
    /\ app' = RegisterBlueprint(app, all_blueprints[a_i + 1])
    /\ a_i' = a_i + 1
    /\ a_steps' = Append(a_steps, "register_blueprint")
    /\ UNCHANGED <<a_pc, all_blueprints, settings, db_apps>>

\* lines 58, 61: the list is exhausted
RegisterBlueprints_Return ==
    /\ AFrame
    /\ a_pc = "blueprints"
    /\ a_i >= Len(all_blueprints)
    /\ a_pc' = "error_handler"
    /\ UNCHANGED <<all_blueprints, settings, app, db_apps, a_i, a_steps>>

\* line 50
InitConfig_ErrorHandler ==
    /\ AFrame
    /\ a_pc = "error_handler"
    /\ app' = RegisterErrorHandler(app)
    /\ a_steps' = Append(a_steps, "register_error_handler")
    /\ a_pc' = "db"
    /\ UNCHANGED <<all_blueprints, settings, db_apps, a_i>>

\* lines 52-54
InitConfig_DbInit ==
    /\ AFrame
    /\ a_pc = "db"
    /\ db_apps' = Append(db_apps, app.name)
    /\ a_steps' = Append(a_steps, "db.init_app")
    /\ a_pc' = "encoder"
    /\ UNCHANGED <<all_blueprints, settings, app, a_i>>

\* line 41
CreateApp_Encoder ==
    /\ AFrame
    /\ a_pc = "encoder"
    /\ app' = [app EXCEPT !.json_encoder = "JsonEncoder"]
    /\ a_steps' = Append(a_steps, "json_encoder")
    /\ a_pc' = "return"
    /\ UNCHANGED <<all_blueprints, settings, db_apps, a_i>>

\* line 42
CreateApp_Return ==
    /\ AFrame
    /\ a_pc = "return"
    /\ a_pc' = "returned"
    /\ UNCHANGED <<all_blueprints, settings, app, db_apps, a_i, a_steps>>

ANext ==
    \/ CreateApp_Flask
    \/ CreateApp_CORS
    \/ InitConfig_Settings
    \/ RegisterBlueprints_Step
    \/ RegisterBlueprints_Return
    \/ InitConfig_ErrorHandler
    \/ InitConfig_DbInit
    \/ CreateApp_Encoder
    \/ CreateApp_Return

----------------------------------------------------------------------------
(* init_logging, run by the worker processes of one host                   *)

NumProcs == 2
MaxCalls == 2

Procs == 1..NumProcs

Namespaces == {"PRODUCTION", "TEST"}

\* line 77
Level(namespace) == IF namespace = "PRODUCTION" THEN "INFO" ELSE "DEBUG"

\* line 78: every process of the host computes the same name
DirName == "./log/host"

\* the directories os.makedirs(dir_name) has to create: the parents too
PathTo(dir) == {"./log", dir}

LInit ==
    /\ l_pc = [p \in Procs |-> "idle"]
    /\ fs \in {{}, {"./log"}, PathTo(DirName)}
    /\ l_calls = [p \in Procs |-> 0]
    /\ l_made = [p \in Procs |-> 0]
    /\ l_err = [p \in Procs |-> ""]
    /\ l_conf = [p \in Procs |-> ""]

LIdle ==
    /\ l_pc = [p \in Procs |-> "idle"]
    /\ fs = {}
    /\ l_calls = [p \in Procs |-> 0]
    /\ l_made = [p \in Procs |-> 0]
    /\ l_err = [p \in Procs |-> ""]
    /\ l_conf = [p \in Procs |-> ""]

\* lines 76-79: a call starts and tests os.path.exists(dir_name)
InitLogging_Exists(p) ==
    /\ LFrame
    /\ l_pc[p] \in {"idle", "done"}
    /\ l_calls[p] < MaxCalls
    /\ l_calls' = [l_calls EXCEPT ![p] = @ + 1]
    /\ l_pc' = [l_pc EXCEPT ![p] = IF DirName \in fs THEN "config" ELSE "makedirs"]
    /\ UNCHANGED <<fs, l_made, l_err, l_conf>>

\* line 80: os.makedirs(dir_name) without exist_ok raises FileExistsError
\* when the directory is there by the time it runs
InitLogging_Makedirs(p) ==
    /\ LFrame
    /\ l_pc[p] = "makedirs"
    /\ IF DirName \in fs
       THEN /\ l_err' = [l_err EXCEPT ![p] = "FileExistsError"]
            /\ l_pc' = [l_pc EXCEPT ![p] = "failed"]
            /\ UNCHANGED <<fs, l_made>>
       ELSE /\ fs' = fs \cup PathTo(DirName)
            /\ l_made' = [l_made EXCEPT ![p] = @ + 1]
            /\ l_pc' = [l_pc EXCEPT ![p] = "config"]
            /\ UNCHANGED l_err
    /\ UNCHANGED <<l_calls, l_conf>>

\* lines 82-149: dictConfig(config) opens server.log and access.log inside
\* dir_name, which fails when the directory is missing
InitLogging_DictConfig(p) ==
    /\ LFrame
    /\ l_pc[p] = "config"
    /\ \E namespace \in Namespaces :
          IF DirName \in fs
          THEN /\ l_conf' = [l_conf EXCEPT ![p] = Level(namespace)]
               /\ l_pc' = [l_pc EXCEPT ![p] = "patch"]
               /\ UNCHANGED l_err
          ELSE /\ l_err' = [l_err EXCEPT ![p] = "FileNotFoundError"]
               /\ l_pc' = [l_pc EXCEPT ![p] = "failed"]
               /\ UNCHANGED l_conf
    /\ UNCHANGED <<fs, l_calls, l_made>>

\* lines 137-150
InitLogging_Patch(p) ==
    /\ LFrame
    /\ l_pc[p] = "patch"
    /\ l_pc' = [l_pc EXCEPT ![p] = "done"]
    /\ UNCHANGED <<fs, l_calls, l_made, l_err, l_conf>>

LNext ==
    \E p \in Procs :
        \/ InitLogging_Exists(p)
        \/ InitLogging_Makedirs(p)
        \/ InitLogging_DictConfig(p)
        \/ InitLogging_Patch(p)

----------------------------------------------------------------------------
(* Query models: QueryField, BaseQueryModel                                *)

MaxFields == 2
MaxChanges == 2

FieldNames == {"a", "b"}

\* QueryField.__init__, lines 11-19: the base class keeps field_type,
\* mock_func, enum_values, the comment and nullable; the extra keyword
\* options are kept as parser_kwargs, and `default` is set only when given
QueryField(field_type, location, parser_func, required, enum_values, nullable, kwargs) ==
    [field_type |-> field_type, mock_func |-> FALSE, enum_values |-> enum_values,
     description |-> "", nullable |-> nullable, location |-> location,
     parser_kwargs |-> kwargs, required |-> required, parse_func |-> parser_func]
    @@ (IF "default" \in DOMAIN kwargs THEN [default |-> kwargs["default"]] ELSE EmptyDict)

\* a field declared with a location and a parser only
PlainField == QueryField("STRING", "args", "str", FALSE, <<>>, TRUE, EmptyDict)

\* the declarations the model classes are built from
FieldDecls ==
    {PlainField,
     QueryField("INT", "args", "int", TRUE, <<>>, TRUE, EmptyDict),
     QueryField("INT", "args", "None", FALSE, <<>>, TRUE, EmptyDict),
     QueryField("STRING", "args", "str", FALSE, <<PyStr("1"), PyStr("y")>>, TRUE, EmptyDict),
     QueryField("STRING", "json", "str", FALSE, <<>>, FALSE, EmptyDict),
     QueryField("INT", "json", "int", FALSE, <<PyInt(1), PyInt(2)>>, TRUE,
                [default |-> PyInt(2)]),
     QueryField("INT", "args", "int", FALSE, <<>>, TRUE, [default |-> PyInt(7)])}

\* the class body binds a declaration to the attribute name it is assigned to
Declare(name, field) == [name |-> name] @@ field

RECURSIVE FieldLists(_, _)
\* cls.__fields__ of the classes with at most n fields named in S
FieldLists(S, n) ==
    IF n = 0 \/ S = {} THEN {<<>>}
    ELSE {<<>>} \cup UNION {{<<Declare(x, d)>> \o t : t \in FieldLists(S \ {x}, n - 1),
                                                      d \in FieldDecls} : x \in S}

Classes == FieldLists(FieldNames, MaxFields)

\* NoArgs, lines 62-63
NoArgs == <<>>

NamesOf(flds) == {flds[i].name : i \in DOMAIN flds}

\* hasattr(obj, attribute): the attributes that were assigned
HasAttr(obj, attribute) == attribute \in DOMAIN obj

----------------------------------------------------------------------------
(* flask_restful.reqparse, as parse_args uses it                           *)

\* the dicts with keys in K and values in V
DictsOver(K, V) == UNION {[S -> V] : S \in SUBSET K}

\* request.args holds strings; a JSON body holds strings and nulls
ParseRequests == [args : DictsOver(FieldNames, {PyStr("1"), PyStr("x")}),
                  json : DictsOver(FieldNames, {PyNone, PyStr("1"), PyStr("3")})]

\* reqparse.Argument(name, type=, location=, required=, nullable=, **kwargs)
Argument(name, type, location, required, nullable, kwargs) ==
    [name |-> name, type |-> type, location |-> location, required |-> required,
     nullable |-> nullable, default |-> DictGet(kwargs, "default", PyNone)]

\* int(s): the number whose decimal writing is s, ValueError otherwise
IsIntLiteral(s) == \E n \in 0..9 : IntToStr(n) = s
ParseInt(s) == CHOOSE n \in 0..9 : IntToStr(n) = s

Ok(v) == [ok |-> TRUE, value |-> v]
Err == [ok |-> FALSE, value |-> PyNone]

\* Argument.convert: None passes when nullable; otherwise the type callable is
\* applied; a type of None is not callable, which is a TypeError
Convert(arg, value) ==
    IF value = PyNone THEN (IF arg.nullable THEN Ok(PyNone) ELSE Err)
    ELSE CASE arg.type = "int" ->
                 (CASE value.t = "int" -> Ok(value)
                    [] value.t = "str" /\ IsIntLiteral(value.s) -> Ok(PyInt(ParseInt(value.s)))
                    [] OTHER -> Err)
           [] arg.type = "str" -> Ok(PyStr(Str(value)))
           [] OTHER -> Err

\* Argument.parse: the value found at the argument's location, converted; a
\* missing required argument is an error, any other missing one is the default
ArgumentParse(arg, req) ==
    IF arg.name \in DOMAIN req[arg.location]
    THEN Convert(arg, req[arg.location][arg.name])
    ELSE IF arg.required THEN Err ELSE Ok(arg.default)

RECURSIVE ParserParseArgs(_, _)
\* RequestParser.parse_args: every argument in turn, store_missing on; the
\* first argument in error aborts the request with a 400
ParserParseArgs(args, req) ==
    IF args = <<>> THEN Ok(EmptyDict)
    ELSE LET n == Len(args)
             rest == ParserParseArgs(SubSeq(args, 1, n - 1), req)
             last == ArgumentParse(args[n], req)
         IN  IF rest.ok /\ last.ok
             THEN Ok(Put(rest.value, args[n].name, last.value))
             ELSE [ok |-> FALSE, value |-> EmptyDict]

----------------------------------------------------------------------------
(* BaseQueryModel                                                          *)

NoCall == [op |-> "", item |-> "", default |-> PyNone, result |-> PyNone]

\* BaseModel.__init__(drop_missing=False, **kwargs) leaves an attribute for
\* every declared field and every keyword
BaseModelAttrs(names, kwargs) == names \cup DOMAIN kwargs

\* lines 24-29: the keywords become the storage, and the attribute of every
\* declared field the storage lacks is deleted
NewInstance(heap, names, kwargs) ==
    [storage |-> Len(heap) + 1,
     attrs |-> BaseModelAttrs(names, kwargs) \ {f \in names : f \notin DOMAIN kwargs}]

\* lines 40-44: the fields whose parsed value breaks their enum_values
EnumViolations(flds, ns) ==
    {i \in DOMAIN flds :
        /\ flds[i].enum_values # <<>>
        /\ flds[i].name \in DOMAIN ns
        /\ ns[flds[i].name] # PyNone
        /\ \A j \in DOMAIN flds[i].enum_values : flds[i].enum_values[j] # ns[flds[i].name]}

QInit ==
    /\ fields \in Classes
    /\ p_request \in ParseRequests
    /\ p_pc = "idle"
    /\ p_i = 0
    /\ parser = <<>>
    /\ parsed = EmptyDict
    /\ p_out = ""
    /\ dicts = <<>>
    /\ instance = <<>>
    /\ m_kwargs = EmptyDict
    /\ m_view = 0
    /\ m_expect = EmptyDict
    /\ m_changes = 0
    /\ m_last = NoCall

QIdle ==
    /\ fields = NoArgs
    /\ p_request = [args |-> EmptyDict, json |-> EmptyDict]
    /\ p_pc = "idle"
    /\ p_i = 0
    /\ parser = <<>>
    /\ parsed = EmptyDict
    /\ p_out = ""
    /\ dicts = <<>>
    /\ instance = <<>>
    /\ m_kwargs = EmptyDict
    /\ m_view = 0
    /\ m_expect = EmptyDict
    /\ m_changes = 0
    /\ m_last = NoCall

\* lines 32-33
ParseArgs_Start ==
    /\ QFrame
    /\ p_pc = "idle"
    /\ parser' = <<>>
    /\ p_i' = 0
    /\ p_pc' = "add"
    /\ UNCHANGED <<fields, p_request, parsed, p_out, dicts, instance, m_kwargs, mvars>>

\* lines 35-37, one turn of the loop: reading field.kwargs is an
\* AttributeError unless the field has that attribute
ParseArgs_AddArgument ==
    /\ QFrame
    /\ p_pc = "add"
    /\ p_i < Len(fields)
    /\ LET field == fields[p_i + 1]
       IN  IF HasAttr(field, "kwargs")
           THEN /\ parser' = Append(parser,
                                    Argument(field.name, field.parse_func, field.location,
                                             field.required, field.nullable, field.kwargs))
                /\ p_i' = p_i + 1
                /\ UNCHANGED <<p_pc, p_out>>
           ELSE /\ p_out' = "AttributeError"
                /\ p_pc' = "raised"
                /\ UNCHANGED <<parser, p_i>>
    /\ UNCHANGED <<fields, p_request, parsed, dicts, instance, m_kwargs, mvars>>

\* line 38, after the loop
ParseArgs_Parse ==
    /\ QFrame
    /\ p_pc = "add"
    /\ p_i >= Len(fields)
    /\ LET r == ParserParseArgs(parser, p_request)
       IN  IF r.ok
           THEN /\ parsed' = r.value
                /\ p_pc' = "enum"
                /\ UNCHANGED p_out
           ELSE /\ p_out' = "BadRequest"
                /\ p_pc' = "raised"
                /\ UNCHANGED parsed
    /\ UNCHANGED <<fields, p_request, p_i, parser, dicts, instance, m_kwargs, mvars>>

\* lines 40-44
ParseArgs_CheckEnums ==
    /\ QFrame
    /\ p_pc = "enum"
    /\ IF EnumViolations(fields, parsed) # {}
       THEN /\ p_out' = "InvalidArgumentException"
            /\ p_pc' = "raised"
       ELSE /\ p_pc' = "construct"
            /\ UNCHANGED p_out
    /\ UNCHANGED <<fields, p_request, p_i, parser, parsed, dicts, instance, m_kwargs, mvars>>

\* lines 46-47, with lines 24-29
ParseArgs_Construct ==
    /\ QFrame
    /\ p_pc = "construct"
    /\ dicts' = Append(dicts, parsed)
    /\ instance' = <<NewInstance(dicts, NamesOf(fields), parsed)>>
    /\ m_kwargs' = parsed
    /\ m_expect' = parsed
    /\ p_out' = "instance"
    /\ p_pc' = "returned"
    /\ UNCHANGED <<fields, p_request, p_i, parser, parsed, m_view, m_changes, m_last>>

PNext ==
    \/ ParseArgs_Start
    \/ ParseArgs_AddArgument
    \/ ParseArgs_Parse
    \/ ParseArgs_CheckEnums
    \/ ParseArgs_Construct

----------------------------------------------------------------------------
(* A BaseQueryModel built directly from keyword arguments, and its caller  *)

ModelValues == {PyStr("x"), PyInt(1), PyNone}

\* the names get and `in` are asked about: the declared ones and another
ItemNames == FieldNames \cup {"c"}

\* the classes of plain fields
PlainClasses == {c \in Classes : \A i \in DOMAIN c : c[i] = Declare(c[i].name, PlainField)}

MInit ==
    /\ fields \in PlainClasses
    /\ p_request = [args |-> EmptyDict, json |-> EmptyDict]
    /\ p_pc = "idle"
    /\ p_i = 0
    /\ parser = <<>>
    /\ parsed = EmptyDict
    /\ p_out = ""
    /\ dicts = <<>>
    /\ instance = <<>>
    /\ m_kwargs = EmptyDict
    /\ m_view = 0
    /\ m_expect = EmptyDict
    /\ m_changes = 0
    /\ m_last = NoCall

\* lines 24-29: cls(**kwargs)
BaseQueryModel_Init ==
    /\ QFrame
    /\ instance = <<>>
    /\ \E kwargs \in DictsOver(NamesOf(fields), ModelValues) :
          /\ dicts' = Append(dicts, kwargs)
          /\ instance' = <<NewInstance(dicts, NamesOf(fields), kwargs)>>
          /\ m_kwargs' = kwargs
          /\ m_expect' = kwargs
    /\ UNCHANGED <<fields, pvars, m_view, m_changes, m_last>>

\* an as_dict that hands out a copy of the storage
AsDict_Copy ==
    /\ QFrame
    /\ instance # <<>>
    /\ Len(dicts) < MaxChanges + 1
    /\ dicts' = Append(dicts, dicts[instance[1].storage])
    /\ m_view' = Len(dicts) + 1
    /\ UNCHANGED <<fields, instance, m_kwargs, pvars, m_expect, m_changes, m_last>>

\* lines 49-50
AsDict ==
    /\ QFrame
    /\ instance # <<>>
    /\ m_view' = instance[1].storage
    /\ UNCHANGED <<fields, dicts, instance, m_kwargs, pvars, m_expect, m_changes, m_last>>

\* the caller sets or deletes a key of the dict as_dict() gave it
CallerChange ==
    /\ QFrame
    /\ m_view # 0
    /\ m_changes < MaxChanges
    /\ \E k \in ItemNames, set \in BOOLEAN :
          IF set
          THEN /\ dicts' = [dicts EXCEPT ![m_view] = Put(@, k, PyInt(2))]
               /\ m_expect' = Put(m_expect, k, PyInt(2))
          ELSE /\ k \in DOMAIN dicts[m_view]
               /\ dicts' = [dicts EXCEPT ![m_view] = Del(@, k)]
               /\ m_expect' = Del(m_expect, k)
    /\ m_changes' = m_changes + 1
    /\ m_last' = NoCall
    /\ UNCHANGED <<fields, instance, m_kwargs, pvars, m_view>>

\* lines 52-53
Get ==
    /\ QFrame
    /\ instance # <<>>
    /\ \E item \in ItemNames, default \in {PyNone, PyStr("d")} :
          m_last' = [op |-> "get", item |-> item, default |-> default,
                     result |-> DictGet(dicts[instance[1].storage], item, default)]
    /\ UNCHANGED <<fields, dicts, instance, m_kwargs, pvars, m_view, m_expect, m_changes>>

\* lines 55-56
Contains ==
    /\ QFrame
    /\ instance # <<>>
    /\ \E item \in ItemNames :
          m_last' = [op |-> "in", item |-> item, default |-> PyNone,
                     result |-> PyBool(item \in DOMAIN dicts[instance[1].storage])]
    /\ UNCHANGED <<fields, dicts, instance, m_kwargs, pvars, m_view, m_expect, m_changes>>

MNext ==
    \/ BaseQueryModel_Init
    \/ AsDict
    \/ CallerChange
    \/ Get
    \/ Contains

----------------------------------------------------------------------------
(* Claims about handle_exception                                           *)

HandlerFinished == h_pc \in {"returned", "raised"}

\* the place of event ev in h_trace, 0 when it has not happened
Pos(ev) == IF \E i \in DOMAIN h_trace : h_trace[i] = ev
           THEN CHOOSE i \in DOMAIN h_trace : h_trace[i] = ev
           ELSE 0

\* C1: for every exception handed to handle_exception, once the handler has
\* finished, send_dingding_alert has been called exactly once if the computed
\* status code is 500 and not at all for any other code; an exception that is
\* neither an HTTPException nor a ServerException always triggers the alert.
C1_AlertOn500 ==
    HandlerFinished =>
        /\ Len(alerts) = (IF code = PyInt(500) THEN 1 ELSE 0)
        /\ ~IsInstance(e, {"HTTPException", "ServerException"}) => Len(alerts) = 1

\* C2: the handler turns every exception into a response whose status equals
\* the error_code of its body, e.code for an HTTPException or ServerException
\* and 500 otherwise, the body carrying exactly error_code, error_msg (str(e))
\* and traceback.
C2_JsonErrorResponse ==
    HandlerFinished =>
        /\ Len(response) = 1
        /\ response[1].status = response[1].body.error_code
        /\ response[1].status =
              (IF IsInstance(e, {"HTTPException", "ServerException"})
               THEN e.code ELSE PyInt(500))
        /\ DOMAIN response[1].body = {"error_code", "error_msg", "traceback"}
        /\ response[1].body.error_msg = StrExc(e)

\* C8: the handler logs, then (for a 500) alerts, then responds: a response
\* for a 500 comes only after send_dingding_alert has returned; the exception
\* is logged, whatever the code, before any alert is attempted; and when the
\* alert call, or reading the request for it, raises, no response is returned
\* and the error propagates.
C8_HandlerOrder ==
    /\ (response # <<>> /\ ShouldAlert(code)) =>
          /\ Pos("alert_return") > 0
          /\ Pos("alert_return") < Pos("response")
    /\ h_pc \in {"alert", "return", "returned", "raised"} => Pos("log") = 1
    /\ \A ev \in {"read_url", "read_args", "read_json", "alert_call"} :
          Pos(ev) > 0 => (Pos("log") > 0 /\ Pos("log") < Pos(ev))
    /\ ((Pos("alert_call") > 0 /\ Pos("alert_return") = 0)
        \/ (Pos("read_json") > 0 /\ Pos("alert_call") = 0)) =>
          /\ h_pc = "raised"
          /\ h_raised # ""
          /\ response = <<>>
          /\ Pos("response") = 0
    /\ h_raised # "" => (response = <<>> /\ h_pc = "raised")

\* a 500 whose alert call raised: logged, alerted, nothing returned
C8_Witness_AlertRaised ==
    /\ h_pc = "raised"
    /\ h_raised = "AlertError"
    /\ code = PyInt(500)
    /\ Pos("alert_call") > Pos("log")
    /\ response = <<>>

----------------------------------------------------------------------------
(* Claims about create_app                                                 *)

\* the steps the factory is to take after building the application
StepsInOrder ==
    <<"Flask", "CORS", "config">>
    \o [i \in 1..Len(all_blueprints) |-> "register_blueprint"]
    \o <<"register_error_handler", "db.init_app", "json_encoder">>

\* C7: when create_app returns, every blueprint of all_blueprints is
\* registered on the app exactly once, handle_exception handles Exception,
\* the database is initialised with the app, the JSON encoder is JsonEncoder,
\* and the steps ran in the order settings, blueprints, error handler,
\* db.init_app, JSON encoder.
C7_CreateApp ==
    a_pc = "returned" =>
        /\ \A bp \in Range(all_blueprints) : Count(bp, app.blueprints) = 1
        /\ <<"Exception", "handle_exception">> \in app.error_handlers
        /\ db_apps = <<app.name>>
        /\ app.json_encoder = "JsonEncoder"
        /\ a_steps = StepsInOrder

\* create_app has returned an app built from a list of several blueprints
C7_Witness_Returned ==
    /\ a_pc = "returned"
    /\ Len(all_blueprints) >= 2
    /\ Len(app.blueprints) >= 2

----------------------------------------------------------------------------
(* Claims about init_logging                                               *)

\* C10: init_logging creates ./log/<hostname> only when it is absent and has
\* it in place before the logging configuration is applied; no call fails,
\* neither a repeated call nor the calls of processes of one host that run
\* concurrently from a state without the directory.
C10_LogDirectory ==
    \A p \in Procs :
        /\ l_pc[p] # "failed"
        /\ l_err[p] = ""
        /\ l_conf[p] # "" => DirName \in fs
        /\ l_made[p] <= 1

----------------------------------------------------------------------------
(* Claims about BaseQueryModel.parse_args                                  *)

ParseFinished == p_pc \in {"returned", "raised"}

\* the storage of the instance parse_args returned
Returned == dicts[instance[1].storage]

\* the arguments a class's declarations describe: one per field, in order,
\* with the field's own options
DeclaredArgs ==
    [i \in DOMAIN fields |->
        Argument(fields[i].name, fields[i].parse_func, fields[i].location,
                 fields[i].required, fields[i].nullable, fields[i].parser_kwargs)]

\* what the request parser makes of the request under those arguments
DeclaredParse == ParserParseArgs(DeclaredArgs, p_request)

\* some declared field with enum_values has a value that is not None and is
\* not one of them
OutsideEnum(ns) ==
    \E i \in DOMAIN fields :
        /\ Len(fields[i].enum_values) > 0
        /\ ns[fields[i].name] # PyNone
        /\ ns[fields[i].name] \notin Range(fields[i].enum_values)

\* C3: parse_args raises InvalidArgumentException, building no instance,
\* exactly when the request parser succeeds and some field with enum_values
\* has a parsed value that is neither None nor a member; when every such
\* value is a member, parse_args returns an instance built from all parsed
\* values.
C3_EnumValidation ==
    ParseFinished =>
        /\ (p_out = "InvalidArgumentException")
              <=> (DeclaredParse.ok /\ OutsideEnum(DeclaredParse.value))
        /\ p_out = "InvalidArgumentException" => instance = <<>>
        /\ (DeclaredParse.ok /\ ~OutsideEnum(DeclaredParse.value)) =>
              /\ p_out = "instance"
              /\ instance # <<>>
              /\ Returned = DeclaredParse.value

\* C4: parse_args forwards a field's extra keyword options to the request
\* parser, so a request that omits a parameter declared with default=d
\* yields a model whose field has the value d.
C4_DefaultForwarded ==
    ParseFinished =>
        \A i \in DOMAIN fields :
            "default" \in DOMAIN fields[i].parser_kwargs =>
                /\ i \in DOMAIN parser
                /\ parser[i].default = fields[i].parser_kwargs["default"]
                /\ (/\ fields[i].name \notin DOMAIN p_request[fields[i].location]
                    /\ DeclaredParse.ok
                    /\ ~OutsideEnum(DeclaredParse.value)) =>
                      /\ p_out = "instance"
                      /\ instance # <<>>
                      /\ Returned[fields[i].name] = fields[i].parser_kwargs["default"]

\* C5: parse_args registers exactly one parser argument per declared field,
\* in declaration order, each with that field's name, location, required and
\* nullable flags, all of them before the request is parsed.
C5_Registration ==
    p_pc \notin {"idle", "add"} =>
        /\ Len(parser) = Len(fields)
        /\ \A i \in DOMAIN fields :
              /\ parser[i].name = fields[i].name
              /\ parser[i].location = fields[i].location
              /\ parser[i].required = fields[i].required
              /\ parser[i].nullable = fields[i].nullable

\* the Python type an ApiDataType stands for
PyTypeOf(field_type) == IF field_type = "INT" THEN "int" ELSE "str"

\* the request gives the field a value that its declared type accepts
Coercible(field, req) ==
    /\ field.name \in DOMAIN req[field.location]
    /\ LET raw == req[field.location][field.name]
       IN  /\ raw # PyNone
           /\ field.field_type = "INT" => IsIntLiteral(raw.s)

\* C6: every parameter value of the model parse_args returns is coerced to
\* the type declared for its field, also for a field declared with a
\* field_type and no parser_func: a request that gives every field a value
\* its type accepts, inside its enum_values, comes back as a model holding
\* values of the declared types.
C6_TypeCoercion ==
    (/\ ParseFinished
     /\ \A i \in DOMAIN fields : Coercible(fields[i], p_request)
     /\ DeclaredParse.ok => ~OutsideEnum(DeclaredParse.value)) =>
        /\ p_out = "instance"
        /\ instance # <<>>
        /\ \A i \in DOMAIN fields :
              Returned[fields[i].name].t = PyTypeOf(fields[i].field_type)

----------------------------------------------------------------------------
(* Claims about BaseQueryModel instances                                   *)

\* C9: for a model built from keyword arguments K, as_dict() returns K,
\* `name in model` holds exactly for the keys of K, get(name, d) is K[name]
\* for a key and d otherwise, no declared field outside K has an attribute,
\* and as_dict() returns the storage itself: what the caller changes in the
\* returned dict is what later get and `in` calls see.
C9_Storage ==
    instance # <<>> =>
        /\ (m_view # 0 /\ m_changes = 0) => dicts[m_view] = m_kwargs
        /\ m_view # 0 => m_view = instance[1].storage
        /\ m_last.op = "in" =>
              m_last.result = PyBool(m_last.item \in DOMAIN m_expect)
        /\ m_last.op = "get" =>
              m_last.result = (IF m_last.item \in DOMAIN m_expect
                               THEN m_expect[m_last.item]
                               ELSE m_last.default)
        /\ \A f \in NamesOf(fields) \ DOMAIN m_kwargs : f \notin instance[1].attrs

\* a get that returned what the caller had put into the as_dict() result
\* under a key that was no keyword, on a model with a field left out
C9_Witness_SeesChange ==
    /\ instance # <<>>
    /\ m_changes > 0
    /\ m_last.op = "get"
    /\ m_last.item \notin DOMAIN m_kwargs
    /\ m_last.result = PyInt(2)
    /\ m_last.default = PyStr("d")
    /\ NamesOf(fields) \ DOMAIN m_kwargs # {}

----------------------------------------------------------------------------
InitHandler == HInit /\ AIdle /\ LIdle /\ QIdle
SpecHandler == InitHandler /\ [][HNext]_vars

InitApp == AInit /\ HIdle /\ LIdle /\ QIdle
SpecApp == InitApp /\ [][ANext]_vars

InitLogging == LInit /\ HIdle /\ AIdle /\ QIdle
SpecLogging == InitLogging /\ [][LNext]_vars

InitParse == QInit /\ HIdle /\ AIdle /\ LIdle
SpecParse == InitParse /\ [][PNext]_vars

InitModel == MInit /\ HIdle /\ AIdle /\ LIdle
SpecModel == InitModel /\ [][MNext]_vars

====
